---- MODULE Spec2Model ----
(***************************************************************************)
(* Draft synchronisation of zerver/lib/drafts.py and zerver/views/drafts.py *)
(* as a state machine: the per-user enable_drafts_synchronization flag, the *)
(* Draft table, and the four gated endpoints plus the enable/disable        *)
(* transitions.                                                             *)
(*                                                                          *)
(* Strings are sequences of characters; NUL stands for "\x00".  Timestamps  *)
(* are integers counting 1/SubMicro of a microsecond, so that values finer  *)
(* than the microsecond rounding of round(timestamp, 6) exist.              *)
(***************************************************************************)
EXTENDS Integers, Sequences, FiniteSets, TLC

VARIABLES
    enable_drafts_synchronization,  \* UserProfile.enable_drafts_synchronization, per user
    drafts,                         \* the Draft table: id -> row
    next_id,                        \* the table's id sequence
    request,                        \* the request handled last
    response                        \* the response it got

vars == <<enable_drafts_synchronization, drafts, next_id, request, response>>

----------------------------------------------------------------------------
(* Bounds of the model *)

MaxId == 2          \* ids the sequence hands out
MaxBatch == 2       \* payloads in one create request
SubMicro == 4       \* timestamp units per microsecond
MaxLen == 2         \* stands for MAX_MESSAGE_LENGTH and MAX_TOPIC_NAME_LENGTH

Users == {1, 2}                 \* user profile ids of the realm
Ids == 1..MaxId                 \* draft ids a request may name
NUL == "NUL"

Range(s) == {s[i] : i \in DOMAIN s}

Rep(c, n) == [i \in 1..n |-> c]

----------------------------------------------------------------------------
(* Collaborators outside lib/drafts.py *)

\* truncate_body / truncate_topic: keep at most the maximum length
truncate_body(content) == SubSeq(content, 1, IF Len(content) < MaxLen THEN Len(content) ELSE MaxLen)

truncate_topic(topic) == SubSeq(topic, 1, IF Len(topic) < MaxLen THEN Len(topic) ELSE MaxLen)

\* access_stream_by_id: the streams each user may access
AccessibleStreams(user_profile) == IF user_profile = 1 THEN {1, 2} ELSE {1}

NullRecipient == [kind |-> "null", streams |-> {}, users |-> {}]

StreamRecipient(stream_id) == [kind |-> "stream", streams |-> {stream_id}, users |-> {}]

\* get_user_profiles_by_ids: every id must be a user of the realm
get_user_profiles_by_ids_ok(ids) == ids \subseteq Users

\* recipient_for_user_profiles: the canonical recipient of the participants plus the sender
recipient_for_user_profiles(ids, user_profile) ==
    [kind |-> "dm", streams |-> {}, users |-> ids \cup {user_profile}]

\* timestamp_to_datetime: the instant, in microseconds since the epoch
timestamp_to_datetime(micros) == micros

----------------------------------------------------------------------------
(* draft_dict_validator *)

VALID_DRAFT_TYPES == {"", "private", "stream"}

RequiredKeys == {"type", "to", "topic", "content"}

OptionalKeys == {"timestamp"}

\* faulty variant: content is checked as a string only, not as a non-empty one
draft_dict_validator_any_content(d) ==
    /\ RequiredKeys \subseteq DOMAIN d
    /\ DOMAIN d \subseteq RequiredKeys \cup OptionalKeys
    /\ d.type \in VALID_DRAFT_TYPES

draft_dict_validator(d) ==
    /\ RequiredKeys \subseteq DOMAIN d
    /\ DOMAIN d \subseteq RequiredKeys \cup OptionalKeys
    /\ d.type \in VALID_DRAFT_TYPES
    /\ d.content # <<>>

----------------------------------------------------------------------------
(* further_validated_draft_dict *)

\* round(timestamp, 6): to the nearest microsecond, ties to even; -0.0 is 0
round6(ts) ==
    LET q == ts \div SubMicro
        r == ts % SubMicro
    IN  IF 2 * r < SubMicro THEN q
        ELSE IF 2 * r > SubMicro THEN q + 1
        ELSE IF q % 2 = 0 THEN q ELSE q + 1

Err(msg) == [ok |-> FALSE, msg |-> msg]

Ok(recipient, topic, content, last_edit_time) ==
    [ok |-> TRUE,
     value |-> [recipient |-> recipient, topic |-> topic, content |-> content,
                last_edit_time |-> last_edit_time]]

\* faulty variant: the topic is kept whatever the type
further_validated_draft_dict_keep_topic(draft_dict, user_profile, now) ==
    LET content == truncate_body(draft_dict.content)
        timestamp == round6(IF "timestamp" \in DOMAIN draft_dict
                            THEN draft_dict.timestamp ELSE now)
        last_edit_time == timestamp_to_datetime(timestamp)
        to == draft_dict.to
        topic == truncate_topic(draft_dict.topic)
    IN  IF NUL \in Range(content) THEN Err("Content must not contain null bytes")
        ELSE IF timestamp < 0 THEN Err("Timestamp must not be negative.")
        ELSE IF NUL \in Range(topic) THEN Err("Topic must not contain null bytes")
        ELSE IF draft_dict.type = "stream" THEN
            IF Len(to) # 1
                THEN Err("Must specify exactly 1 stream ID for stream messages")
            ELSE IF to[1] \notin AccessibleStreams(user_profile)
                THEN Err("Invalid stream id")
            ELSE Ok(StreamRecipient(to[1]), topic, content, last_edit_time)
        ELSE IF draft_dict.type = "private" /\ Len(to) # 0 THEN
            IF ~get_user_profiles_by_ids_ok(Range(to)) THEN Err("Invalid user ID")
            ELSE Ok(recipient_for_user_profiles(Range(to), user_profile), topic,
                    content, last_edit_time)
        ELSE Ok(NullRecipient, topic, content, last_edit_time)

\* faulty variant: only the first stream id is looked at, and none is no recipient
further_validated_draft_dict_first_id(draft_dict, user_profile, now) ==
    LET content == truncate_body(draft_dict.content)
        timestamp == round6(IF "timestamp" \in DOMAIN draft_dict
                            THEN draft_dict.timestamp ELSE now)
        last_edit_time == timestamp_to_datetime(timestamp)
        to == draft_dict.to
        topic == truncate_topic(draft_dict.topic)
    IN  IF NUL \in Range(content) THEN Err("Content must not contain null bytes")
        ELSE IF timestamp < 0 THEN Err("Timestamp must not be negative.")
        ELSE IF draft_dict.type = "stream" THEN
            IF NUL \in Range(topic) THEN Err("Topic must not contain null bytes")
            ELSE IF Len(to) = 0 THEN Ok(NullRecipient, topic, content, last_edit_time)
            ELSE IF to[1] \notin AccessibleStreams(user_profile)
                THEN Err("Invalid stream id")
            ELSE Ok(StreamRecipient(to[1]), topic, content, last_edit_time)
        ELSE IF draft_dict.type = "private" /\ Len(to) # 0 THEN
            IF ~get_user_profiles_by_ids_ok(Range(to)) THEN Err("Invalid user ID")
            ELSE Ok(recipient_for_user_profiles(Range(to), user_profile), <<>>,
                    content, last_edit_time)
        ELSE Ok(NullRecipient, <<>>, content, last_edit_time)

\* faulty variant: the null-byte check reads the content as sent, before truncation
further_validated_draft_dict_check_first(draft_dict, user_profile, now) ==
    LET content == truncate_body(draft_dict.content)
        timestamp == round6(IF "timestamp" \in DOMAIN draft_dict
                            THEN draft_dict.timestamp ELSE now)
        last_edit_time == timestamp_to_datetime(timestamp)
        to == draft_dict.to
        topic == truncate_topic(draft_dict.topic)
    IN  IF NUL \in Range(draft_dict.content)
        THEN Err("Content must not contain null bytes")
        ELSE IF timestamp < 0 THEN Err("Timestamp must not be negative.")
        ELSE IF draft_dict.type = "stream" THEN
            IF NUL \in Range(topic) THEN Err("Topic must not contain null bytes")
            ELSE IF Len(to) # 1
                THEN Err("Must specify exactly 1 stream ID for stream messages")
            ELSE IF to[1] \notin AccessibleStreams(user_profile)
                THEN Err("Invalid stream id")
            ELSE Ok(StreamRecipient(to[1]), topic, content, last_edit_time)
        ELSE IF draft_dict.type = "private" /\ Len(to) # 0 THEN
            IF ~get_user_profiles_by_ids_ok(Range(to)) THEN Err("Invalid user ID")
            ELSE Ok(recipient_for_user_profiles(Range(to), user_profile), <<>>,
                    content, last_edit_time)
        ELSE Ok(NullRecipient, <<>>, content, last_edit_time)

further_validated_draft_dict(draft_dict, user_profile, now) ==
    LET content == truncate_body(draft_dict.content)
        timestamp == round6(IF "timestamp" \in DOMAIN draft_dict
                            THEN draft_dict.timestamp ELSE now)
        last_edit_time == timestamp_to_datetime(timestamp)
        to == draft_dict.to
        topic == truncate_topic(draft_dict.topic)
    IN  IF NUL \in Range(content) THEN Err("Content must not contain null bytes")
        ELSE IF timestamp < 0 THEN Err("Timestamp must not be negative.")
        ELSE IF draft_dict.type = "stream" THEN
            IF NUL \in Range(topic) THEN Err("Topic must not contain null bytes")
            ELSE IF Len(to) # 1
                THEN Err("Must specify exactly 1 stream ID for stream messages")
            ELSE IF to[1] \notin AccessibleStreams(user_profile)
                THEN Err("Invalid stream id")
            ELSE Ok(StreamRecipient(to[1]), topic, content, last_edit_time)
        ELSE IF draft_dict.type = "private" /\ Len(to) # 0 THEN
            IF ~get_user_profiles_by_ids_ok(Range(to)) THEN Err("Invalid user ID")
            ELSE Ok(recipient_for_user_profiles(Range(to), user_profile), <<>>,
                    content, last_edit_time)
        ELSE Ok(NullRecipient, <<>>, content, last_edit_time)

\* the stream ids further_validated_draft_dict hands to access_stream_by_id
access_stream_by_id_calls(draft_dict, user_profile, now) ==
    LET content == truncate_body(draft_dict.content)
        timestamp == round6(IF "timestamp" \in DOMAIN draft_dict
                            THEN draft_dict.timestamp ELSE now)
        to == draft_dict.to
        topic == truncate_topic(draft_dict.topic)
    IN  IF NUL \in Range(content) \/ timestamp < 0 THEN {}
        ELSE IF draft_dict.type = "stream" /\ NUL \notin Range(topic) /\ Len(to) = 1
        THEN {to[1]}
        ELSE {}

----------------------------------------------------------------------------
(* Requests the clients send *)

Payload(type, to, topic, content) ==
    [type |-> type, to |-> to, topic |-> topic, content |-> content]

PayloadAt(type, to, topic, content, timestamp) ==
    [type |-> type, to |-> to, topic |-> topic, content |-> content,
     timestamp |-> timestamp]

\* Draft dictionaries of the requests: one per branch of the validator and of
\* further_validated_draft_dict
\* the content of the first two is too long, with a null byte behind the
\* maximum length; the content of the third is too long
Undirected == PayloadAt("", <<>>, <<"t">>, Rep("a", MaxLen) \o <<NUL>>, 0)

PrivateNobody == PayloadAt("private", <<>>, <<"t">>, Rep("a", MaxLen) \o <<NUL>>, 0)

Direct == PayloadAt("private", <<2>>, <<"t">>, Rep("b", MaxLen + 1), 5)

\* stream 2 is accessible to user 1 only; no timestamp
Channel == Payload("stream", <<2>>, <<"t">>, <<"a">>)

ChannelNoId == PayloadAt("stream", <<>>, <<"t">>, <<"a">>, 0)

NullByte == PayloadAt("", <<>>, <<>>, <<"a", NUL>>, 0)

Negative == PayloadAt("", <<>>, <<>>, <<"a">>, 0 - SubMicro)

EmptyContent == PayloadAt("", <<>>, <<>>, <<>>, 0)

\* Draft dictionaries of the edit requests
Payloads ==
    {PrivateNobody, Direct, Channel, ChannelNoId, NullByte, Negative, EmptyContent}

\* Draft dictionaries of the create requests
BatchPayloads == {Undirected, Channel, EmptyContent}

Batches == UNION {[1..n -> BatchPayloads] : n \in 0..MaxBatch}

\* time.time(): the wall clock read when a payload carries no timestamp
Nows == {SubMicro + 2}

NowSeqs(n) == {ns \in [1..n -> Nows] : \A i, j \in 1..n : i < j => ns[i] <= ns[j]}

Request(op, user_profile, draft_id, payloads) ==
    [op |-> op, user |-> user_profile, draft_id |-> draft_id, payloads |-> payloads]

Response(status, msg, ids, listed) ==
    [status |-> status, msg |-> msg, ids |-> ids, drafts |-> listed]

json_success == Response(200, "", <<>>, <<>>)

json_error(msg, status) == Response(status, msg, <<>>, <<>>)

NotEnabled == "User has not enabled drafts syncing."

BadRequest == "Bad request variable"

DoesNotExist == "Draft does not exist"

\* The request is answered with an error and nothing is written
Rejected(req, msg, status) ==
    /\ request' = req
    /\ response' = json_error(msg, status)
    /\ UNCHANGED <<enable_drafts_synchronization, drafts, next_id>>

----------------------------------------------------------------------------
(* draft_endpoint: the gate of every view *)

\* faulty variant: the gate lets everybody through
draft_endpoint_open(user_profile) == TRUE

draft_endpoint(user_profile) == enable_drafts_synchronization[user_profile]

----------------------------------------------------------------------------
(* Draft.objects *)

\* faulty variant: the lookup is by id alone
DraftExistsById(draft_id, user_profile) == draft_id \in DOMAIN drafts

\* Draft.objects.get(id=draft_id, user_profile=user_profile) finds a row
DraftExists(draft_id, user_profile) ==
    /\ draft_id \in DOMAIN drafts
    /\ drafts[draft_id].user_profile = user_profile

\* Draft.objects.filter(user_profile=user_profile)
OwnedIds(user_profile) == {i \in DOMAIN drafts : drafts[i].user_profile = user_profile}

DraftRow(user_profile, valid_draft_dict) ==
    [user_profile |-> user_profile,
     recipient |-> valid_draft_dict.recipient,
     topic |-> valid_draft_dict.topic,
     content |-> valid_draft_dict.content,
     last_edit_time |-> valid_draft_dict.last_edit_time]

\* Draft.to_dict
to_dict(draft_id) ==
    [id |-> draft_id,
     recipient |-> drafts[draft_id].recipient,
     topic |-> drafts[draft_id].topic,
     content |-> drafts[draft_id].content,
     last_edit_time |-> drafts[draft_id].last_edit_time]

\* order_by("last_edit_time"): every order of the rows the database may return
Orderings(ids) ==
    {s \in [1..Cardinality(ids) -> ids] :
        /\ \A i, j \in DOMAIN s : i # j => s[i] # s[j]
        /\ \A i, j \in DOMAIN s :
              i < j => drafts[s[i]].last_edit_time <= drafts[s[j]].last_edit_time}

----------------------------------------------------------------------------
(* views/drafts.py *)

\* faulty variant: the rows come back in id order, without order_by
fetch_drafts_by_id(user_profile) ==
    LET req == Request("list", user_profile, 0, <<>>)
        ids == OwnedIds(user_profile)
        user_drafts == CHOOSE s \in [1..Cardinality(ids) -> ids] :
                          \A i, j \in DOMAIN s : i < j => s[i] < s[j]
    IN  IF ~draft_endpoint(user_profile) THEN Rejected(req, NotEnabled, 400)
        ELSE /\ request' = req
             /\ response' = [status |-> 200, msg |-> "", ids |-> <<>>,
                              drafts |-> [i \in DOMAIN user_drafts |->
                                             to_dict(user_drafts[i])],
                              count |-> Cardinality(ids)]
             /\ UNCHANGED <<enable_drafts_synchronization, drafts, next_id>>

fetch_drafts(user_profile) ==
    LET req == Request("list", user_profile, 0, <<>>)
    IN  IF ~draft_endpoint(user_profile) THEN Rejected(req, NotEnabled, 400)
        ELSE \E user_drafts \in Orderings(OwnedIds(user_profile)) :
                /\ request' = req
                /\ response' = [status |-> 200, msg |-> "", ids |-> <<>>,
                                 drafts |-> [i \in DOMAIN user_drafts |->
                                                to_dict(user_drafts[i])],
                                 count |-> Cardinality(OwnedIds(user_profile))]
                /\ UNCHANGED <<enable_drafts_synchronization, drafts, next_id>>

\* Draft.objects.bulk_create: the rows get the next ids of the sequence, in order
bulk_create(req, user_profile, valid) ==
    LET n == Len(valid)
        new == next_id..(next_id + n - 1)
    IN  /\ next_id + n - 1 <= MaxId
        /\ drafts' = [i \in DOMAIN drafts \cup new |->
                         IF i \in new THEN DraftRow(user_profile, valid[i - next_id + 1].value)
                         ELSE drafts[i]]
        /\ next_id' = next_id + n
        /\ request' = req
        /\ response' = Response(200, "", [k \in 1..n |-> next_id + k - 1], <<>>)
        /\ UNCHANGED enable_drafts_synchronization

\* faulty variant: each row is saved as soon as its payload is normalized
do_create_drafts_eager(req, draft_dicts, user_profile) ==
    \E nows \in NowSeqs(Len(draft_dicts)) :
        LET valid == [i \in DOMAIN draft_dicts |->
                         further_validated_draft_dict(draft_dicts[i], user_profile, nows[i])]
            failed == {i \in DOMAIN valid : ~valid[i].ok}
        IN  IF failed # {}
            THEN LET first == CHOOSE i \in failed : \A j \in failed : i <= j
                     new == next_id..(next_id + first - 2)
                 IN  /\ next_id + first - 2 <= MaxId
                     /\ drafts' = [i \in DOMAIN drafts \cup new |->
                                      IF i \in new
                                      THEN DraftRow(user_profile, valid[i - next_id + 1].value)
                                      ELSE drafts[i]]
                     /\ next_id' = next_id + first - 1
                     /\ request' = req
                     /\ response' = json_error(valid[first].msg, 400)
                     /\ UNCHANGED enable_drafts_synchronization
            ELSE bulk_create(req, user_profile, valid)

\* faulty variant: each new Draft is put in front of draft_objects
do_create_drafts_prepend(req, draft_dicts, user_profile) ==
    \E nows \in NowSeqs(Len(draft_dicts)) :
        LET n == Len(draft_dicts)
            valid == [i \in DOMAIN draft_dicts |->
                         further_validated_draft_dict(draft_dicts[n + 1 - i], user_profile,
                                                      nows[n + 1 - i])]
            failed == {i \in DOMAIN valid : ~valid[i].ok}
        IN  IF failed # {}
            THEN LET last == CHOOSE i \in failed : \A j \in failed : i >= j
                 IN  Rejected(req, valid[last].msg, 400)
            ELSE bulk_create(req, user_profile, valid)

do_create_drafts(req, draft_dicts, user_profile) ==
    \E nows \in NowSeqs(Len(draft_dicts)) :
        LET valid == [i \in DOMAIN draft_dicts |->
                         further_validated_draft_dict(draft_dicts[i], user_profile, nows[i])]
            failed == {i \in DOMAIN valid : ~valid[i].ok}
        IN  IF failed # {}
            THEN LET first == CHOOSE i \in failed : \A j \in failed : i <= j
                 IN  Rejected(req, valid[first].msg, 400)
            ELSE bulk_create(req, user_profile, valid)

create_drafts(user_profile, draft_dicts) ==
    LET req == Request("create", user_profile, 0, draft_dicts)
    IN  IF ~draft_endpoint(user_profile) THEN Rejected(req, NotEnabled, 400)
        ELSE IF \E i \in DOMAIN draft_dicts : ~draft_dict_validator(draft_dicts[i])
            THEN Rejected(req, BadRequest, 400)
        ELSE do_create_drafts(req, draft_dicts, user_profile)

\* faulty variant: the topic is not written
do_edit_draft_no_topic(req, draft_id, draft_dict, user_profile) ==
    IF ~DraftExists(draft_id, user_profile) THEN Rejected(req, DoesNotExist, 404)
    ELSE \E now \in Nows :
        LET valid_draft_dict == further_validated_draft_dict(draft_dict, user_profile, now)
        IN  IF ~valid_draft_dict.ok THEN Rejected(req, valid_draft_dict.msg, 404)
            ELSE /\ drafts' = [drafts EXCEPT ![draft_id] =
                                  [@ EXCEPT !.content = valid_draft_dict.value.content,
                                            !.recipient = valid_draft_dict.value.recipient,
                                            !.last_edit_time =
                                                valid_draft_dict.value.last_edit_time]]
                 /\ request' = req
                 /\ response' = json_success
                 /\ UNCHANGED <<enable_drafts_synchronization, next_id>>

\* faulty variant: the content is saved before the payload is normalized
do_edit_draft_save_first(req, draft_id, draft_dict, user_profile) ==
    IF ~DraftExists(draft_id, user_profile) THEN Rejected(req, DoesNotExist, 404)
    ELSE \E now \in Nows :
        LET valid_draft_dict == further_validated_draft_dict(draft_dict, user_profile, now)
        IN  IF ~valid_draft_dict.ok
            THEN /\ drafts' = [drafts EXCEPT ![draft_id].content =
                                  truncate_body(draft_dict.content)]
                 /\ request' = req
                 /\ response' = json_error(valid_draft_dict.msg, 404)
                 /\ UNCHANGED <<enable_drafts_synchronization, next_id>>
            ELSE /\ drafts' = [drafts EXCEPT ![draft_id] =
                                  [@ EXCEPT !.content = valid_draft_dict.value.content,
                                            !.topic = valid_draft_dict.value.topic,
                                            !.recipient = valid_draft_dict.value.recipient,
                                            !.last_edit_time =
                                                valid_draft_dict.value.last_edit_time]]
                 /\ request' = req
                 /\ response' = json_success
                 /\ UNCHANGED <<enable_drafts_synchronization, next_id>>

\* do_edit_draft raises JsonableError(msg): the view answers it with status 404
do_edit_draft(req, draft_id, draft_dict, user_profile) ==
    IF ~DraftExists(draft_id, user_profile) THEN Rejected(req, DoesNotExist, 404)
    ELSE \E now \in Nows :
        LET valid_draft_dict == further_validated_draft_dict(draft_dict, user_profile, now)
        IN  IF ~valid_draft_dict.ok THEN Rejected(req, valid_draft_dict.msg, 404)
            ELSE /\ drafts' = [drafts EXCEPT ![draft_id] =
                                  [@ EXCEPT !.content = valid_draft_dict.value.content,
                                            !.topic = valid_draft_dict.value.topic,
                                            !.recipient = valid_draft_dict.value.recipient,
                                            !.last_edit_time =
                                                valid_draft_dict.value.last_edit_time]]
                 /\ request' = req
                 /\ response' = json_success
                 /\ UNCHANGED <<enable_drafts_synchronization, next_id>>

edit_draft(user_profile, draft_id, draft_dict) ==
    LET req == Request("edit", user_profile, draft_id, <<draft_dict>>)
    IN  IF ~draft_endpoint(user_profile) THEN Rejected(req, NotEnabled, 400)
        ELSE IF ~draft_dict_validator(draft_dict) THEN Rejected(req, BadRequest, 400)
        ELSE do_edit_draft(req, draft_id, draft_dict, user_profile)

\* faulty variant: the delete removes every draft of the user, not the one looked up
do_delete_draft_all(req, draft_id, user_profile) ==
    IF ~DraftExists(draft_id, user_profile) THEN Rejected(req, DoesNotExist, 404)
    ELSE /\ drafts' = [i \in DOMAIN drafts \ OwnedIds(user_profile) |-> drafts[i]]
         /\ request' = req
         /\ response' = json_success
         /\ UNCHANGED <<enable_drafts_synchronization, next_id>>

do_delete_draft(req, draft_id, user_profile) ==
    IF ~DraftExists(draft_id, user_profile) THEN Rejected(req, DoesNotExist, 404)
    ELSE /\ drafts' = [i \in DOMAIN drafts \ {draft_id} |-> drafts[i]]
         /\ request' = req
         /\ response' = json_success
         /\ UNCHANGED <<enable_drafts_synchronization, next_id>>

delete_draft(user_profile, draft_id) ==
    LET req == Request("delete", user_profile, draft_id, <<>>)
    IN  IF ~draft_endpoint(user_profile) THEN Rejected(req, NotEnabled, 400)
        ELSE do_delete_draft(req, draft_id, user_profile)

----------------------------------------------------------------------------
(* The sync preference *)

do_enable_drafts_syncing(user_profile) ==
    /\ enable_drafts_synchronization' =
           [enable_drafts_synchronization EXCEPT ![user_profile] = TRUE]
    /\ request' = Request("enable", user_profile, 0, <<>>)
    /\ response' = json_success
    /\ UNCHANGED <<drafts, next_id>>

\* faulty variant: the flag is cleared and the drafts are kept
do_disable_drafts_syncing_keep(user_profile) ==
    /\ enable_drafts_synchronization' =
           [enable_drafts_synchronization EXCEPT ![user_profile] = FALSE]
    /\ request' = Request("disable", user_profile, 0, <<>>)
    /\ response' = json_success
    /\ UNCHANGED <<drafts, next_id>>

\* faulty variant: the purge is not filtered by user
do_disable_drafts_syncing_everyone(user_profile) ==
    /\ enable_drafts_synchronization' =
           [enable_drafts_synchronization EXCEPT ![user_profile] = FALSE]
    /\ drafts' = <<>>
    /\ request' = Request("disable", user_profile, 0, <<>>)
    /\ response' = json_success
    /\ UNCHANGED next_id

do_disable_drafts_syncing(user_profile) ==
    LET kept == DOMAIN drafts \ OwnedIds(user_profile)
    IN  /\ enable_drafts_synchronization' =
               [enable_drafts_synchronization EXCEPT ![user_profile] = FALSE]
        /\ drafts' = [i \in kept |-> drafts[i]]
        /\ request' = Request("disable", user_profile, 0, <<>>)
        /\ response' = json_success
        /\ UNCHANGED next_id

----------------------------------------------------------------------------
(* The system *)

Init ==
    /\ enable_drafts_synchronization \in [Users -> BOOLEAN]
    /\ drafts = <<>>
    /\ next_id = 1
    /\ request = Request("none", 0, 0, <<>>)
    /\ response = json_success

Next ==
    \/ \E u \in Users : fetch_drafts(u)
    \/ \E u \in Users, ds \in Batches : create_drafts(u, ds)
    \/ \E u \in Users, id \in Ids, d \in Payloads : edit_draft(u, id, d)
    \/ \E u \in Users, id \in Ids : delete_draft(u, id)
    \/ \E u \in Users : do_enable_drafts_syncing(u)
    \/ \E u \in Users : do_disable_drafts_syncing(u)

Spec == Init /\ [][Next]_vars

----------------------------------------------------------------------------
(* further_validated_draft_dict on its own: every draft dictionary that      *)
(* passes draft_dict_validator, over small alphabets                         *)

NormTos == {<<>>, <<1>>, <<2>>, <<1, 2>>, <<3>>}

NormTopics == {<<>>, <<"t">>, <<NUL>>, Rep("t", MaxLen) \o <<NUL>>}

NormContents ==
    {<<"a">>, <<NUL>>, Rep("a", MaxLen + 1), Rep("a", MaxLen) \o <<NUL>>,
     Rep("a", MaxLen - 1) \o <<NUL, "a">>}

NormTimestamps == {0 - SubMicro - 1, 0 - SubMicro, 0 - 1, 0, 1, SubMicro + 2}

NormNows == {0, 1, SubMicro + 2}

NormDicts ==
    {Payload(type, to, topic, content) :
        type \in VALID_DRAFT_TYPES, to \in NormTos, topic \in NormTopics,
        content \in NormContents}
    \cup
    UNION {{PayloadAt(type, to, topic, content, ts) :
              type \in VALID_DRAFT_TYPES, to \in NormTos, topic \in NormTopics,
              content \in NormContents} : ts \in NormTimestamps}

NormInit ==
    /\ enable_drafts_synchronization = [u \in Users |-> TRUE]
    /\ drafts = <<>>
    /\ next_id = 1
    /\ request \in {[op |-> "normalize", user |-> u, draft_dict |-> d, now |-> n] :
                       u \in Users, d \in NormDicts, n \in NormNows}
    /\ response = Err("pending")

Normalize ==
    /\ request.op = "normalize"
    /\ request' = [request EXCEPT !.op = "normalized"]
    /\ response' = further_validated_draft_dict(request.draft_dict, request.user, request.now)
    /\ UNCHANGED <<enable_drafts_synchronization, drafts, next_id>>

NormNext == Normalize

NormSpec == NormInit /\ [][NormNext]_vars

----------------------------------------------------------------------------
(* One create or edit request, with any draft dictionary of NormDicts, sent  *)
(* when user 1 has stored one draft                                          *)

\* the table after create_drafts(1, <<Channel>>)
StoredDrafts ==
    <<DraftRow(1, further_validated_draft_dict(Channel, 1, SubMicro + 2).value)>>

ApplyInit ==
    /\ enable_drafts_synchronization \in {f \in [Users -> BOOLEAN] : f[1]}
    /\ drafts = StoredDrafts
    /\ next_id = 2
    /\ request = Request("none", 0, 0, <<>>)
    /\ response = json_success

ApplyEdit ==
    /\ request.op = "none"
    /\ \E u \in Users, d \in NormDicts : edit_draft(u, 1, d)

ApplyCreate ==
    /\ request.op = "none"
    /\ \E u \in Users, d \in NormDicts : create_drafts(u, <<d>>)

ApplyNext == ApplyEdit \/ ApplyCreate

ApplySpec == ApplyInit /\ [][ApplyNext]_vars

----------------------------------------------------------------------------
(* Two requests in flight at once.  Each request handler runs its database   *)
(* statements one at a time, and the statements of the two handlers          *)
(* interleave.  request[p] is what handler p holds in memory, response[p]    *)
(* is what it has answered.  Both users have stored one draft.               *)

Procs == {1, 2}

Retopic == Payload("stream", <<2>>, <<"u">>, <<"a">>)

Reword == Payload("stream", <<2>>, <<"t">>, <<"b">>)

\* stream 2 is accessible to user 1 only: user 2's normalization fails
ConcPayloads == {Retopic, Reword}

\* the table after create_drafts(1, <<Channel>>) and create_drafts(2, <<Undirected>>)
ConcDrafts ==
    <<DraftRow(1, further_validated_draft_dict(Channel, 1, SubMicro + 2).value),
      DraftRow(2, further_validated_draft_dict(Undirected, 2, SubMicro + 2).value)>>

Pending == Response(0, "", <<>>, <<>>)

Handler(pc, op, user_profile, draft_id, payloads) ==
    [pc |-> pc, op |-> op, user |-> user_profile, draft_id |-> draft_id,
     payloads |-> payloads, loaded |-> <<>>, draft_object |-> <<>>]

\* handler p goes on to its next statement
Goto(p, pc) ==
    /\ request' = [request EXCEPT ![p].pc = pc]
    /\ UNCHANGED response

\* handler p answers and ends
Answer(p, resp) ==
    /\ request' = [request EXCEPT ![p].pc = "done"]
    /\ response' = [response EXCEPT ![p] = resp]

ConcInit ==
    /\ enable_drafts_synchronization = [u \in Users |-> TRUE]
    /\ drafts = ConcDrafts
    /\ next_id = Len(ConcDrafts) + 1
    /\ request = [p \in Procs |-> Handler("idle", "none", 0, 0, <<>>)]
    /\ response = [p \in Procs |-> Pending]

\* a create, edit or delete request arrives: draft_endpoint reads the flag, the
\* view's argument check follows
ConcGate(p) ==
    /\ request[p].pc = "idle"
    /\ \E op \in {"create", "edit", "delete"}, u \in Users,
          draft_id \in DOMAIN ConcDrafts, d \in ConcPayloads :
          LET req == Handler("done", op, u, IF op = "create" THEN 0 ELSE draft_id,
                             IF op = "delete" THEN <<>> ELSE <<d>>)
          IN  IF ~draft_endpoint(u)
              THEN /\ request' = [request EXCEPT ![p] = req]
                   /\ response' = [response EXCEPT ![p] = json_error(NotEnabled, 400)]
              ELSE IF op # "delete" /\ ~draft_dict_validator(d)
              THEN /\ request' = [request EXCEPT ![p] = req]
                   /\ response' = [response EXCEPT ![p] = json_error(BadRequest, 400)]
              ELSE /\ request' = [request EXCEPT ![p] =
                          [req EXCEPT !.pc = IF op = "create" THEN "normalize" ELSE "get"]]
                   /\ UNCHANGED response
    /\ UNCHANGED <<enable_drafts_synchronization, drafts, next_id>>

\* Draft.objects.get(id=draft_id, user_profile=user_profile) of edit and delete
ConcGet(p) ==
    /\ request[p].pc = "get"
    /\ IF ~DraftExists(request[p].draft_id, request[p].user)
       THEN Answer(p, json_error(DoesNotExist, 404))
       ELSE /\ request' = [request EXCEPT
                   ![p].pc = IF request[p].op = "edit" THEN "normalize" ELSE "delete",
                   ![p].loaded = drafts[request[p].draft_id],
                   ![p].draft_object = drafts[request[p].draft_id]]
            /\ UNCHANGED response
    /\ UNCHANGED <<enable_drafts_synchronization, drafts, next_id>>

\* further_validated_draft_dict and the assignments to the Draft object
ConcNormalize(p) ==
    /\ request[p].pc = "normalize"
    /\ \E now \in Nows :
          LET valid_draft_dict ==
                  further_validated_draft_dict(request[p].payloads[1], request[p].user, now)
          IN  IF ~valid_draft_dict.ok
              THEN Answer(p, json_error(valid_draft_dict.msg,
                                        IF request[p].op = "edit" THEN 404 ELSE 400))
              ELSE /\ request' = [request EXCEPT
                          ![p].pc = IF request[p].op = "edit" THEN "save" ELSE "bulk_create",
                          ![p].draft_object =
                              IF request[p].op = "edit"
                              THEN [request[p].loaded EXCEPT
                                       !.content = valid_draft_dict.value.content,
                                       !.topic = valid_draft_dict.value.topic,
                                       !.recipient = valid_draft_dict.value.recipient,
                                       !.last_edit_time =
                                           valid_draft_dict.value.last_edit_time]
                              ELSE DraftRow(request[p].user, valid_draft_dict.value)]
                   /\ UNCHANGED response
    /\ UNCHANGED <<enable_drafts_synchronization, drafts, next_id>>

\* faulty variant: save() writes only the fields that differ from the loaded row
ConcSaveChanged(p) ==
    /\ request[p].pc = "save"
    /\ drafts' = [i \in DOMAIN drafts \cup {request[p].draft_id} |->
                     IF i # request[p].draft_id THEN drafts[i]
                     ELSE IF i \notin DOMAIN drafts THEN request[p].draft_object
                     ELSE [f \in DOMAIN drafts[i] |->
                              IF request[p].draft_object[f] # request[p].loaded[f]
                              THEN request[p].draft_object[f]
                              ELSE drafts[i][f]]]
    /\ Answer(p, json_success)
    /\ UNCHANGED <<enable_drafts_synchronization, next_id>>

\* draft_object.save() of edit: every field of the object is written to the row
\* of its id, and the row is inserted when the update finds none
ConcSave(p) ==
    /\ request[p].pc = "save"
    /\ drafts' = [i \in DOMAIN drafts \cup {request[p].draft_id} |->
                     IF i = request[p].draft_id THEN request[p].draft_object
                     ELSE drafts[i]]
    /\ Answer(p, json_success)
    /\ UNCHANGED <<enable_drafts_synchronization, next_id>>

\* Draft.objects.bulk_create of create
ConcBulkCreate(p) ==
    /\ request[p].pc = "bulk_create"
    /\ drafts' = [i \in DOMAIN drafts \cup {next_id} |->
                     IF i = next_id THEN request[p].draft_object ELSE drafts[i]]
    /\ next_id' = next_id + 1
    /\ Answer(p, Response(200, "", <<next_id>>, <<>>))
    /\ UNCHANGED enable_drafts_synchronization

\* draft_object.delete() of delete
ConcDelete(p) ==
    /\ request[p].pc = "delete"
    /\ drafts' = [i \in DOMAIN drafts \ {request[p].draft_id} |-> drafts[i]]
    /\ Answer(p, json_success)
    /\ UNCHANGED <<enable_drafts_synchronization, next_id>>

ConcEnable(p) ==
    /\ request[p].pc = "idle"
    /\ \E u \in Users :
          /\ enable_drafts_synchronization' =
                 [enable_drafts_synchronization EXCEPT ![u] = TRUE]
          /\ request' = [request EXCEPT ![p] = Handler("done", "enable", u, 0, <<>>)]
          /\ response' = [response EXCEPT ![p] = json_success]
    /\ UNCHANGED <<drafts, next_id>>

\* do_disable_drafts_syncing, the save of the flag
ConcDisableFlag(p) ==
    /\ request[p].pc = "idle"
    /\ \E u \in Users :
          /\ enable_drafts_synchronization' =
                 [enable_drafts_synchronization EXCEPT ![u] = FALSE]
          /\ request' = [request EXCEPT ![p] = Handler("purge", "disable", u, 0, <<>>)]
    /\ UNCHANGED <<drafts, next_id, response>>

\* do_disable_drafts_syncing, the delete of the user's drafts
ConcDisablePurge(p) ==
    /\ request[p].pc = "purge"
    /\ drafts' = [i \in DOMAIN drafts \ OwnedIds(request[p].user) |-> drafts[i]]
    /\ Answer(p, json_success)
    /\ UNCHANGED <<enable_drafts_synchronization, next_id>>

ConcNext ==
    \E p \in Procs :
        \/ ConcGate(p)
        \/ ConcGet(p)
        \/ ConcNormalize(p)
        \/ ConcSave(p)
        \/ ConcBulkCreate(p)
        \/ ConcDelete(p)
        \/ ConcEnable(p)
        \/ ConcDisableFlag(p)
        \/ ConcDisablePurge(p)

ConcSpec == ConcInit /\ [][ConcNext]_vars

----------------------------------------------------------------------------
(* Properties.  A step's request' and response' name the operation that the  *)
(* step performed and its outcome; the unprimed variables are the state it   *)
(* started from.                                                             *)

GatedOps == {"list", "create", "edit", "delete"}

PreconditionError == json_error(NotEnabled, 400)

NotFound == json_error(DoesNotExist, 404)

StoreUnchanged ==
    /\ drafts' = drafts
    /\ next_id' = next_id
    /\ enable_drafts_synchronization' = enable_drafts_synchronization

\* some clock reading makes the payload pass further_validated_draft_dict
Normalizable(d, u) == \E now \in Nows : further_validated_draft_dict(d, u, now).ok

\* the row is what the payload normalizes to for user u
NormalizedRow(row, d, u) ==
    \E now \in Nows :
        LET v == further_validated_draft_dict(d, u, now)
        IN  v.ok /\ row = DraftRow(u, v.value)

BadEntry(d, u) == ~draft_dict_validator(d) \/ ~Normalizable(d, u)

\* the draft exists and belongs to somebody else
Foreign(draft_id, u) ==
    /\ draft_id \in DOMAIN drafts
    /\ drafts[draft_id].user_profile # u

\* C1: a list, create, edit or delete by a user whose
\* enable_drafts_synchronization is false is answered with the "sync not
\* enabled" error whatever its arguments, and changes neither the drafts nor
\* any flag.
GateClosedRejects ==
    [][(request'.op \in GatedOps /\ ~enable_drafts_synchronization[request'.user])
          => (response' = PreconditionError /\ StoreUnchanged)]_vars

\* C1 witness: a disabled user's edit with a schema-invalid payload and an id
\* that does not exist was rejected by the gate while drafts are stored
GateClosedWitness ==
    /\ request.op = "edit"
    /\ ~enable_drafts_synchronization[request.user]
    /\ response = PreconditionError
    /\ ~draft_dict_validator(request.payloads[1])
    /\ request.draft_id \notin DOMAIN drafts
    /\ drafts # <<>>

\* C2: a user whose sync is off owns no drafts; disable leaves the user with
\* the flag off and no drafts; while the flag is off every gated call of the
\* user gets the "sync not enabled" error and only enable turns the flag on;
\* list reports exactly the drafts the user owns, and a user comes to own a
\* draft only by a successful create of their own, under an id never used
\* before (so list stays empty after re-enabling until a create).
DisablePurges ==
    /\ [](\A u \in Users : ~enable_drafts_synchronization[u] => OwnedIds(u) = {})
    /\ [][\A u \in Users :
            /\ (request'.op = "disable" /\ request'.user = u)
                  => (~enable_drafts_synchronization'[u] /\ OwnedIds(u)' = {})
            /\ (~enable_drafts_synchronization[u] /\ enable_drafts_synchronization'[u])
                  => (request'.op = "enable" /\ request'.user = u)
            /\ (~enable_drafts_synchronization[u] /\ request'.op \in GatedOps
                    /\ request'.user = u)
                  => response' = PreconditionError
            /\ (request'.op = "list" /\ request'.user = u /\ response'.status = 200)
                  => Len(response'.drafts) = Cardinality(OwnedIds(u))
            /\ ~(OwnedIds(u)' \subseteq OwnedIds(u))
                  => /\ request'.op = "create" /\ request'.user = u
                     /\ response'.status = 200
                     /\ (OwnedIds(u)' \ OwnedIds(u)) \subseteq next_id..(next_id' - 1)
         ]_vars

\* C2 witness: disable has run for a user after drafts had been created, and
\* drafts are gone
DisablePurgesWitness ==
    /\ request.op = "disable"
    /\ ~enable_drafts_synchronization[request.user]
    /\ next_id > 1
    /\ drafts = <<>>

\* C3: a draft never changes owner; an edit or delete by another user than
\* the owner never succeeds and leaves the store unchanged, and once past the
\* gate and the schema check it is answered "Draft does not exist" whatever the
\* payload; list returns only drafts of the caller.
OwnershipScoped ==
    [][/\ \A i \in DOMAIN drafts \cap DOMAIN drafts' :
             drafts'[i].user_profile = drafts[i].user_profile
       /\ (request'.op \in {"edit", "delete"} /\ Foreign(request'.draft_id, request'.user))
             => /\ drafts' = drafts
                /\ response'.status # 200
                /\ (/\ enable_drafts_synchronization[request'.user]
                    /\ request'.op = "edit" => draft_dict_validator(request'.payloads[1]))
                      => response' = NotFound
       /\ (request'.op = "list" /\ response'.status = 200)
             => \A k \in DOMAIN response'.drafts :
                   /\ response'.drafts[k].id \in DOMAIN drafts
                   /\ drafts[response'.drafts[k].id].user_profile = request'.user
      ]_vars

\* C3 witness: an edit of another user's draft with a payload that would
\* normalize was answered "Draft does not exist"
OwnershipWitness ==
    /\ request.op = "edit"
    /\ response = NotFound
    /\ Foreign(request.draft_id, request.user)
    /\ Normalizable(request.payloads[1], request.user)
    /\ draft_dict_validator(request.payloads[1])

\* C4: a create request with an entry, at any position, that fails the schema
\* check or normalization fails, returns no ids and leaves the set of drafts
\* as it was.
CreateAllOrNothing ==
    [][(/\ request'.op = "create"
        /\ \E i \in DOMAIN request'.payloads : BadEntry(request'.payloads[i], request'.user))
          => /\ response'.status # 200
             /\ response'.ids = <<>>
             /\ StoreUnchanged]_vars

\* C4 witness: an enabled user's batch whose first entry is good and whose
\* second entry fails normalization was rejected
CreateAllOrNothingWitness ==
    /\ request.op = "create"
    /\ enable_drafts_synchronization[request.user]
    /\ Len(request.payloads) = 2
    /\ ~BadEntry(request.payloads[1], request.user)
    /\ draft_dict_validator(request.payloads[2])
    /\ ~Normalizable(request.payloads[2], request.user)
    /\ response.status = 400

\* C5: a successful create of n payloads returns n pairwise distinct ids, none
\* of them in the store before; the store afterwards is the old one plus, under
\* the i-th id, the normalization of the i-th payload owned by the caller.
CreateInOrder ==
    [][(request'.op = "create" /\ response'.status = 200)
          => LET ids == response'.ids
                 ds == request'.payloads
                 u == request'.user
             IN  /\ Len(ids) = Len(ds)
                 /\ \A i, j \in DOMAIN ids : i # j => ids[i] # ids[j]
                 /\ Range(ids) \cap DOMAIN drafts = {}
                 /\ DOMAIN drafts' = DOMAIN drafts \cup Range(ids)
                 /\ \A i \in DOMAIN ids : NormalizedRow(drafts'[ids[i]], ds[i], u)
                 /\ \A k \in DOMAIN drafts : drafts'[k] = drafts[k]
                 /\ enable_drafts_synchronization' = enable_drafts_synchronization
      ]_vars

\* C5 witness: a batch of two different payloads was created
CreateInOrderWitness ==
    /\ request.op = "create"
    /\ response.status = 200
    /\ Len(response.ids) = 2
    /\ request.payloads[1] # request.payloads[2]

\* C6: edit_draft answers with the not-found status only when the draft is
\* absent or owned by another user; an owner's edit whose payload fails
\* normalization gets a different outcome.
EditNotFoundOnlyWhenAbsent ==
    [][(request'.op = "edit" /\ response'.status = 404)
          => ~DraftExists(request'.draft_id, request'.user)]_vars

\* C7: a successful edit replaces content, topic, recipient and
\* last_edit_time of the caller's draft by the normalization of the payload;
\* the draft keeps its id and owner, every other draft, the number of drafts
\* and every flag stay as they were.
EditReplaces ==
    [][(request'.op = "edit" /\ response'.status = 200)
          => LET u == request'.user
                 id == request'.draft_id
             IN  /\ DraftExists(id, u)
                 /\ DOMAIN drafts' = DOMAIN drafts
                 /\ NormalizedRow(drafts'[id], request'.payloads[1], u)
                 /\ \A k \in DOMAIN drafts \ {id} : drafts'[k] = drafts[k]
                 /\ next_id' = next_id
                 /\ enable_drafts_synchronization' = enable_drafts_synchronization
      ]_vars

\* C7 witness: one of two stored drafts was edited into a direct message
EditReplacesWitness ==
    /\ request.op = "edit"
    /\ response.status = 200
    /\ Cardinality(DOMAIN drafts) = 2
    /\ request.payloads[1] = Direct
    /\ drafts[request.draft_id].recipient.kind = "dm"

\* C8: an edit that names no draft of the caller, or whose payload fails
\* normalization, fails, and no failed edit changes any draft.
EditFailurePersistsNothing ==
    [][/\ (/\ request'.op = "edit"
           /\ \/ ~DraftExists(request'.draft_id, request'.user)
              \/ ~Normalizable(request'.payloads[1], request'.user))
             => response'.status # 200
       /\ (request'.op = "edit" /\ response'.status # 200) => StoreUnchanged
      ]_vars

\* C8 witness: the owner's edit of an existing draft failed in normalization
EditFailureWitness ==
    /\ request.op = "edit"
    /\ response.status = 404
    /\ response.msg # DoesNotExist
    /\ DraftExists(request.draft_id, request.user)
    /\ drafts[request.draft_id].content # truncate_body(request.payloads[1].content)

\* C9: normalization rejects every negative timestamp, the timestamp check
\* passes every timestamp that is zero or positive, and an accepted timestamp
\* is stored rounded to the microsecond.
NegativeTimestampRejected ==
    (request.op = "normalized" /\ "timestamp" \in DOMAIN request.draft_dict)
        => LET ts == request.draft_dict.timestamp
           IN  /\ ts < 0 => ~response.ok
               /\ (ts >= 0 /\ ~response.ok) => response.msg # "Timestamp must not be negative."
               /\ response.ok => response.value.last_edit_time = round6(ts)

\* the recipient and topic a row written from payload d by user u must have
RecipientTopicOf(row, d, u) ==
    IF d.type = "stream"
    THEN /\ row.recipient # NullRecipient
         /\ Len(d.to) = 1
         /\ row.recipient = StreamRecipient(d.to[1])
    ELSE IF d.type = "private" /\ d.to # <<>>
    THEN /\ row.recipient = recipient_for_user_profiles(Range(d.to), u)
         /\ row.topic = <<>>
    ELSE /\ row.recipient = NullRecipient
         /\ row.topic = <<>>

\* C10: every row a create or edit writes has the recipient and topic its
\* payload's type prescribes, every other row of the store is a row that was
\* there before, and no row ever has a null recipient with a non-empty topic.
RecipientTopicInvariant ==
    /\ [](\A i \in DOMAIN drafts :
             drafts[i].recipient = NullRecipient => drafts[i].topic = <<>>)
    /\ [][LET ok == response'.status = 200
              written == IF ok /\ request'.op = "create" THEN Range(response'.ids)
                         ELSE IF ok /\ request'.op = "edit" THEN {request'.draft_id}
                         ELSE {}
              payload(i) == IF request'.op = "create"
                            THEN request'.payloads[CHOOSE k \in DOMAIN response'.ids :
                                                      response'.ids[k] = i]
                            ELSE request'.payloads[1]
          IN  \A i \in DOMAIN drafts' :
                 IF i \in written
                 THEN RecipientTopicOf(drafts'[i], payload(i), request'.user)
                 ELSE i \in DOMAIN drafts /\ drafts'[i] = drafts[i]
         ]_vars

\* C10 witness: an edit with a 'private' payload without participants that
\* carries a topic left a row with no recipient and no topic
RecipientTopicWitness ==
    /\ request.op = "edit"
    /\ response.status = 200
    /\ request.payloads[1] = PrivateNobody
    /\ request.payloads[1].topic # <<>>
    /\ drafts[request.draft_id].recipient = NullRecipient
    /\ drafts[request.draft_id].topic = <<>>

\* C11: a schema-valid 'stream' payload whose 'to' has not exactly one id
\* fails normalization whatever its content, topic and timestamp, without any
\* id being handed to the stream lookup, and the create or edit carrying it
\* fails and leaves the drafts as they were.
StreamNeedsOneId ==
    (request.op \in {"create", "edit"}
        /\ request.payloads[1].type = "stream" /\ Len(request.payloads[1].to) # 1)
        => /\ \A now \in NormNows :
                /\ ~further_validated_draft_dict(request.payloads[1], request.user, now).ok
                /\ access_stream_by_id_calls(request.payloads[1], request.user, now) = {}
           /\ response.status # 200
           /\ drafts = StoredDrafts
           /\ next_id = 2

\* C11 witness: an enabled user's create with two stream ids and nothing else
\* wrong was rejected for the number of ids
StreamNeedsOneIdWitness ==
    /\ request.op = "create"
    /\ enable_drafts_synchronization[request.user]
    /\ request.payloads[1].type = "stream"
    /\ request.payloads[1].to = <<1, 2>>
    /\ response.msg = "Must specify exactly 1 stream ID for stream messages"
    /\ drafts = StoredDrafts

\* C12: a list by a user whose synchronization is enabled succeeds and returns
\* each draft the user owns exactly once, as the store holds it, and no draft
\* of another user, in non-decreasing order of last_edit_time, with count
\* equal to the number of drafts returned; drafts, id sequence and flags stay
\* as they were.
ListReturnsOwned ==
    [][(request'.op = "list" /\ enable_drafts_synchronization[request'.user])
        => /\ response'.status = 200
           /\ {response'.drafts[i].id : i \in DOMAIN response'.drafts}
                  = OwnedIds(request'.user)
           /\ Len(response'.drafts) = Cardinality(OwnedIds(request'.user))
           /\ \A i \in DOMAIN response'.drafts :
                  response'.drafts[i] = to_dict(response'.drafts[i].id)
           /\ \A i, j \in DOMAIN response'.drafts :
                  i < j => response'.drafts[i].last_edit_time
                              <= response'.drafts[j].last_edit_time
           /\ response'.count = Len(response'.drafts)
           /\ StoreUnchanged]_vars

\* C12 witness: a list answered with two drafts of which the one created later
\* was edited earlier and comes first
ListReturnsOwnedWitness ==
    /\ request.op = "list"
    /\ response.status = 200
    /\ Len(response.drafts) = 2
    /\ response.count = 2
    /\ response.drafts[1].id > response.drafts[2].id
    /\ response.drafts[1].last_edit_time < response.drafts[2].last_edit_time

\* C13: in every state reached by requests to the endpoints, the content of
\* every stored draft is non-empty, at most the maximum message length long,
\* and has no null byte.
StoredContentValid ==
    \A id \in DOMAIN drafts :
        /\ drafts[id].content # <<>>
        /\ Len(drafts[id].content) <= MaxLen
        /\ NUL \notin Range(drafts[id].content)

\* C13 witness: a create whose first payload had content longer than the
\* maximum succeeded and the stored content is the truncated one
StoredContentWitness ==
    /\ request.op = "create"
    /\ response.status = 200
    /\ Len(response.ids) > 0
    /\ Len(request.payloads[1].content) > MaxLen
    /\ response.ids[1] \in DOMAIN drafts
    /\ drafts[response.ids[1]].content = truncate_body(request.payloads[1].content)

\* C14: the null-byte check reads the truncated content: a null byte in the
\* part that truncation keeps is answered with the null-byte error, a payload
\* whose null bytes all lie behind the truncation point never is, and an
\* accepted payload's content is exactly the truncated content, null bytes
\* neither stripped nor replaced.
TruncatedBeforeNullCheck ==
    request.op = "normalized"
        => IF NUL \in Range(truncate_body(request.draft_dict.content))
           THEN response = Err("Content must not contain null bytes")
           ELSE /\ response.ok
                    => response.value.content
                           = truncate_body(request.draft_dict.content)
                /\ ~response.ok
                    => response.msg # "Content must not contain null bytes"
                /\ response.ok
                    = further_validated_draft_dict(
                          [request.draft_dict EXCEPT
                              !.content = truncate_body(request.draft_dict.content)],
                          request.user, request.now).ok

\* C14 witness: content one longer than the maximum, its only null byte
\* behind the truncation point, was accepted and comes out truncated
TruncatedBeforeNullCheckWitness ==
    /\ request.op = "normalized"
    /\ request.draft_dict.content = Rep("a", MaxLen) \o <<NUL>>
    /\ response.ok
    /\ response.value.content = Rep("a", MaxLen)

\* C15: a delete by an enabled user of a draft the user owns succeeds, removes
\* that draft and changes no other draft, no flag and not the id sequence; a
\* delete of an id that is absent or owned by another user is answered "Draft
\* does not exist" and changes nothing; an id that has left the store never
\* returns, so a later delete of it, and a later edit of it that passes the
\* schema check, are answered "Draft does not exist" as well.
DeleteExact ==
    [][/\ (request'.op = "delete" /\ enable_drafts_synchronization[request'.user])
            => IF DraftExists(request'.draft_id, request'.user)
               THEN /\ response' = json_success
                    /\ DOMAIN drafts' = DOMAIN drafts \ {request'.draft_id}
                    /\ \A i \in DOMAIN drafts' : drafts'[i] = drafts[i]
                    /\ next_id' = next_id
                    /\ enable_drafts_synchronization' = enable_drafts_synchronization
               ELSE /\ response' = NotFound
                    /\ StoreUnchanged
       /\ \A i \in 1..(next_id - 1) : i \notin DOMAIN drafts => i \notin DOMAIN drafts'
       /\ (/\ request'.op \in {"delete", "edit"}
           /\ enable_drafts_synchronization[request'.user]
           /\ request'.draft_id \in 1..(next_id - 1)
           /\ request'.draft_id \notin DOMAIN drafts
           /\ request'.op = "edit" => draft_dict_validator(request'.payloads[1]))
            => /\ response' = NotFound
               /\ StoreUnchanged
      ]_vars

\* C15 witness: a delete of an id that was handed out and has been removed was
\* answered "Draft does not exist", the caller's other draft still stored
DeleteExactWitness ==
    /\ request.op = "delete"
    /\ response = NotFound
    /\ enable_drafts_synchronization[request.user]
    /\ request.draft_id \in 1..(next_id - 1)
    /\ request.draft_id \notin DOMAIN drafts
    /\ OwnedIds(request.user) # {}

\* C16: enabling or disabling synchronization for a user changes no other
\* user's flag and no other user's draft and creates no draft; enabling sets
\* the user's flag and leaves every draft as it was; disabling clears the
\* user's flag and removes drafts of that user only.
SyncFrame ==
    [][request'.op \in {"enable", "disable"}
        => /\ \A v \in Users \ {request'.user} :
                  enable_drafts_synchronization'[v] = enable_drafts_synchronization[v]
           /\ enable_drafts_synchronization'[request'.user] = (request'.op = "enable")
           /\ DOMAIN drafts' \subseteq DOMAIN drafts
           /\ \A i \in DOMAIN drafts :
                  drafts[i].user_profile # request'.user
                      => i \in DOMAIN drafts' /\ drafts'[i] = drafts[i]
           /\ request'.op = "enable" => drafts' = drafts
           /\ next_id' = next_id
      ]_vars

\* C16 witness: synchronization was disabled for a user while the other user,
\* still enabled, keeps a draft, and an id handed out before is gone
SyncFrameWitness ==
    /\ request.op = "disable"
    /\ ~enable_drafts_synchronization[request.user]
    /\ \E i \in DOMAIN drafts :
          /\ drafts[i].user_profile # request.user
          /\ enable_drafts_synchronization[drafts[i].user_profile]
    /\ \E i \in 1..(next_id - 1) : i \notin DOMAIN drafts

\* no handler is between its first and its last statement
Quiescent == \A p \in Procs : request[p].pc \in {"idle", "done"}

\* both handlers edited the same draft and both answered success
BothEdited ==
    /\ \A p \in Procs :
          /\ request[p].pc = "done"
          /\ request[p].op = "edit"
          /\ response[p] = json_success
    /\ \A p, q \in Procs : request[p].draft_id = request[q].draft_id

\* C17: when both handlers have edited the same draft and both answered
\* success, whatever the interleaving of their statements, the draft is stored
\* and is, in content, topic, recipient and last_edit_time together, what one
\* of the two payloads normalizes to, and every other draft is as it was.
ConcurrentEditsWhole ==
    BothEdited
        => /\ DOMAIN drafts = DOMAIN ConcDrafts
           /\ \E p \in Procs :
                  NormalizedRow(drafts[request[p].draft_id],
                                request[p].payloads[1], request[p].user)
           /\ \A i \in DOMAIN drafts :
                  (\A p \in Procs : i # request[p].draft_id) => drafts[i] = ConcDrafts[i]

\* C17 witness: both handlers loaded the draft before either saved, their
\* payloads differ, and both answered success
ConcurrentEditsWitness ==
    /\ BothEdited
    /\ \A p \in Procs : request[p].loaded = ConcDrafts[request[p].draft_id]
    /\ request[1].payloads # request[2].payloads
    /\ \E p \in Procs :
          NormalizedRow(drafts[request[p].draft_id],
                        request[p].payloads[1], request[p].user)

\* C18: whenever no request is in progress, a user whose
\* enable_drafts_synchronization is false owns no draft.
QuiescentDisabledOwnsNothing ==
    Quiescent
        => \A u \in Users : ~enable_drafts_synchronization[u] => OwnedIds(u) = {}

\* C19: an id that was handed out and is no longer in the store is never in
\* the store again.
RemovedStaysRemoved ==
    [][\A i \in 1..(next_id - 1) : i \notin DOMAIN drafts => i \notin DOMAIN drafts']_vars

====
